---- MODULE Spec2Model ----
(***************************************************************************)
(* Model of sql/parts/notebook/models/notebookContexts.ts:                 *)
(* NotebookContexts.getContextsForKernel, getActiveContexts and            *)
(* getDefaultKernel.  An invocation is a process: it is called, it may     *)
(* suspend on connectionService.getActiveConnections(), and it settles     *)
(* (returns or rejects).  JavaScript objects carry a reference (ref) so    *)
(* that === on objects is identity, as in the language.                    *)
(***************************************************************************)
EXTENDS Integers, Sequences, FiniteSets, TLC

VARIABLES pc, op, args, locals, heap, fetches, fetched, result, error

vars == <<pc, op, args, locals, heap, fetches, fetched, result, error>>

\* ---------------------------------------------------------------- bounds
MaxCalls == 2
MaxConns == 2
MaxProviderIds == 1
MaxKernels == 2

Procs == 1..MaxCalls
\* the invocation followed when only one is made
Main == CHOOSE p \in Procs : \A q \in Procs : p <= q

\* ---------------------------------------------------------------- values
Undefined == [t |-> "undefined"]

BSeq(S, n) == UNION {[1..k -> S] : k \in 0..n}

MSSQL_PROVIDER == "MSSQL"
SQL == "SQL"

Providers == {"MSSQL", "PGSQL"}
ConnIds == {"-1", "1"}
ServerNames == {"A", "B"}
FetchErrors == {"E1", "E2"}

\* the data of a connection profile held by the connection service
ConnData == [providerName : Providers, id : ConnIds, serverName : ServerNames]

\* the i-th object of the list the service hands out
SvcConn(d, i) ==
    [ref |-> <<0, i>>, providerName |-> d.providerName, id |-> d.id,
     serverName |-> d.serverName]

SvcList(ds) == [i \in 1..Len(ds) |-> SvcConn(ds[i], i)]

\* what connectionService.getActiveConnections() resolves with
FetchedValues ==
    {[isNull |-> TRUE, items |-> <<>>]} \cup
    {[isNull |-> FALSE, items |-> SvcList(ds)] : ds \in BSeq(ConnData, MaxConns)}

ProviderIdLists == BSeq(Providers, MaxProviderIds) \cup {<<"MSSQL", "PGSQL">>}

OptionValues ==
    {[defined |-> FALSE, keys |-> {}], [defined |-> TRUE, keys |-> {}],
     [defined |-> TRUE, keys |-> {"x"}]}

Profiles ==
    {Undefined} \cup [serverName : ServerNames, options : OptionValues]

Kernels == [id : {"k1", "k2"}, name : {"", "SQL", "Python"}]

KernelChangedArgs ==
    {Undefined} \cup
    [oldValue : {Undefined} \cup Kernels, newValue : {Undefined} \cup Kernels]

KernelNames == {"SQL", "Python"}
KernelSpecs == [name : KernelNames, display_name : {"d1", "d2"}]
AllKernels ==
    {Undefined} \cup
    [kernels : BSeq(KernelSpecs, MaxKernels), defaultKernel : KernelNames \cup {"R"}]
ConnectionInfos == {Undefined, [serverName |-> "A"]}
KernelInfos == {Undefined} \cup [name : KernelNames \cup {"R"}]
NotificationServices == {"n1", "n2"}

\* ---------------------------------------------------------- JS helpers
Truthy(v) == v.defined

StrictEquals(a, b) == a.ref = b.ref

Includes(s, x) == \E i \in 1..Len(s) : s[i] = x

\* ---------------------------------------------------- placeholder contexts
DefaultContext(r) ==
    LET defaultConnection ==
            [ref |-> r, providerName |-> MSSQL_PROVIDER, id |-> "-1",
             serverName |-> "Select connection"]
    IN  [defaultConnection |-> defaultConnection,
         otherConnections |-> <<defaultConnection>>]

LocalContext(r) ==
    LET localConnection ==
            [ref |-> r, providerName |-> MSSQL_PROVIDER, id |-> "-1",
             serverName |-> "Localhost"]
    IN  [defaultConnection |-> localConnection,
         otherConnections |-> <<localConnection>>]

NewConnection(r) ==
    [ref |-> r, providerName |-> "SQL", id |-> "-2",
     serverName |-> "Add new connection"]

\* ------------------------------------------------- getContextsForKernel
\* line 56-57: nothing to do, kernels are the same or new kernel is undefined
NothingToDo_ByName(kernelChangedArgs) ==
    \/ kernelChangedArgs = Undefined
    \/ kernelChangedArgs.newValue = Undefined
    \/ /\ kernelChangedArgs.oldValue # Undefined
       /\ kernelChangedArgs.newValue.name = kernelChangedArgs.oldValue.name

NothingToDo(kernelChangedArgs) ==
    \/ kernelChangedArgs = Undefined
    \/ kernelChangedArgs.newValue = Undefined
    \/ /\ kernelChangedArgs.oldValue # Undefined
       /\ kernelChangedArgs.newValue.id = kernelChangedArgs.oldValue.id

\* line 62: a named new kernel and no connection provider for it
NoProviderForKernel_Never(kernelChangedArgs, connProviderIds) ==
    /\ kernelChangedArgs # Undefined
    /\ kernelChangedArgs.newValue # Undefined
    /\ kernelChangedArgs.newValue.name # ""
    /\ Len(connProviderIds) < 0

NoProviderForKernel(kernelChangedArgs, connProviderIds) ==
    /\ kernelChangedArgs # Undefined
    /\ kernelChangedArgs.newValue # Undefined
    /\ kernelChangedArgs.newValue.name # ""
    /\ Len(connProviderIds) < 1

\* ---------------------------------------------------- getActiveContexts
\* line 79-81
FilterPlaceholder_Keep(activeConnections) == activeConnections

FilterPlaceholder(activeConnections) ==
    IF (~activeConnections.isNull) /\ Len(activeConnections.items) > 0
    THEN [isNull |-> FALSE,
          items |-> SelectSeq(activeConnections.items, LAMBDA conn : conn.id # "-1")]
    ELSE activeConnections

\* line 100-102
FilterByProvider_All(activeConnections, connProviderIds) == activeConnections

FilterByProvider(activeConnections, connProviderIds) ==
    SelectSeq(activeConnections,
              LAMBDA connection : Includes(connProviderIds, connection.providerName))

\* line 106-107: connections.find(connection => connection.serverName === profile.serverName)
RECURSIVE FindByServerNameFrom(_, _, _)
FindByServerNameFrom(connections, serverName, i) ==
    IF i > Len(connections) THEN Undefined
    ELSE IF connections[i].serverName = serverName THEN connections[i]
    ELSE FindByServerNameFrom(connections, serverName, i + 1)

RECURSIVE FindLastByServerNameFrom(_, _, _)
FindLastByServerNameFrom(connections, serverName, i) ==
    IF i < 1 THEN Undefined
    ELSE IF connections[i].serverName = serverName THEN connections[i]
    ELSE FindLastByServerNameFrom(connections, serverName, i - 1)

FindByServerName_Last(connections, serverName) ==
    FindLastByServerNameFrom(connections, serverName, Len(connections))

FindByServerName(connections, serverName) ==
    FindByServerNameFrom(connections, serverName, 1)

\* line 105: if (profile && profile.options)
HasProfileOptions_Always(profile) == profile # Undefined

HasProfileOptions(profile) == profile # Undefined /\ Truthy(profile.options)

\* line 103-110: the default among the allowed connections
PickDefault_FromAll(activeConnections, connections, profile, defaultConnection) ==
    IF Len(connections) > 0
    THEN IF HasProfileOptions(profile)
            /\ FindByServerName(activeConnections, profile.serverName) # Undefined
         THEN FindByServerName(activeConnections, profile.serverName)
         ELSE connections[1]
    ELSE defaultConnection

PickDefault(activeConnections, connections, profile, defaultConnection) ==
    IF Len(connections) > 0
    THEN IF HasProfileOptions(profile)
            /\ FindByServerName(connections, profile.serverName) # Undefined
         THEN FindByServerName(connections, profile.serverName)
         ELSE connections[1]
    ELSE defaultConnection

Return(v) == [t |-> "return", v |-> v, e |-> ""]
Throw(e) == [t |-> "throw", v |-> Undefined, e |-> e]

\* line 78-126: the rest of getActiveContexts once the fetch has resolved with
\* fetchedValue; defaultConnection is the local of line 76, h the number of
\* objects invocation p has allocated so far
getActiveContextsResume(p, h, defaultConnection, fetchedValue, connProviderIds, profile) ==
    LET filtered == FilterPlaceholder(fetchedValue)
    IN  IF filtered.isNull
        THEN Throw("TypeError")
        ELSE IF Len(filtered.items) = 0
        THEN IF Len(connProviderIds) = 0
             THEN Return(LocalContext(<<p, h + 1>>))
             ELSE Return(DefaultContext(<<p, h + 1>>))
        ELSE
          LET connections == FilterByProvider(filtered.items, connProviderIds)
              chosen == PickDefault(filtered.items, connections, profile, defaultConnection)
              activeConnections == connections
              others ==
                  IF StrictEquals(chosen, DefaultContext(<<p, h + 1>>).defaultConnection)
                  THEN Append(activeConnections, NewConnection(<<p, h + 2>>))
                  ELSE activeConnections
          IN  Return([otherConnections |-> others, defaultConnection |-> chosen])

\* ----------------------------------------------------- getDefaultKernel
\* line 139, 141: specs.kernels.find((kernel) => kernel.name === name)
RECURSIVE FindKernelFrom(_, _, _)
FindKernelFrom(kernels, name, i) ==
    IF i > Len(kernels) THEN Undefined
    ELSE IF kernels[i].name = name THEN kernels[i]
    ELSE FindKernelFrom(kernels, name, i + 1)

FindKernel(kernels, name) == FindKernelFrom(kernels, name, 1)

getDefaultKernel_DefaultFirst(specs, connectionInfo, savedKernelInfo, notificationService) ==
    LET defaultKernel0 ==
            IF specs # Undefined THEN FindKernel(specs.kernels, specs.defaultKernel)
            ELSE Undefined
        savedKernel ==
            IF specs # Undefined /\ savedKernelInfo # Undefined
            THEN FindKernel(specs.kernels, savedKernelInfo.name)
            ELSE Undefined
        defaultKernel1 ==
            IF specs # Undefined /\ connectionInfo # Undefined
            THEN IF defaultKernel0 = Undefined THEN savedKernel ELSE defaultKernel0
            ELSE defaultKernel0
    IN  IF defaultKernel1 = Undefined
        THEN [name |-> SQL, display_name |-> SQL]
        ELSE defaultKernel1

getDefaultKernel(specs, connectionInfo, savedKernelInfo, notificationService) ==
    LET defaultKernel0 ==
            IF specs # Undefined THEN FindKernel(specs.kernels, specs.defaultKernel)
            ELSE Undefined
        savedKernel ==
            IF specs # Undefined /\ savedKernelInfo # Undefined
            THEN FindKernel(specs.kernels, savedKernelInfo.name)
            ELSE Undefined
        defaultKernel1 ==
            IF specs # Undefined /\ connectionInfo # Undefined
            THEN IF savedKernel = Undefined THEN defaultKernel0 ELSE savedKernel
            ELSE defaultKernel0
    IN  IF defaultKernel1 = Undefined
        THEN [name |-> SQL, display_name |-> SQL]
        ELSE defaultKernel1

\* ------------------------------------------------------------ the machine
NoArgs ==
    [connProviderIds |-> <<>>, kernelChangedArgs |-> Undefined, profile |-> Undefined,
     specs |-> Undefined, connectionInfo |-> Undefined, savedKernelInfo |-> Undefined,
     notificationService |-> "n1"]

NotFetched == [t |-> "none", v |-> [isNull |-> FALSE, items |-> <<>>], e |-> ""]

Init ==
    /\ pc = [p \in Procs |-> "idle"]
    /\ op = [p \in Procs |-> "none"]
    /\ args = [p \in Procs |-> NoArgs]
    /\ locals = [p \in Procs |-> Undefined]
    /\ heap = [p \in Procs |-> 0]
    /\ fetches = [p \in Procs |-> 0]
    /\ fetched = [p \in Procs |-> NotFetched]
    /\ result = [p \in Procs |-> Undefined]
    /\ error = [p \in Procs |-> ""]

\* line 75-77: entry of getActiveContexts up to the await
EnterActiveContexts(p, h) ==
    /\ locals' = [locals EXCEPT ![p] = DefaultContext(<<p, h + 1>>).defaultConnection]
    /\ heap' = [heap EXCEPT ![p] = h + 1]
    /\ fetches' = [fetches EXCEPT ![p] = @ + 1]
    /\ pc' = [pc EXCEPT ![p] = "awaiting"]
    /\ UNCHANGED <<fetched, result, error>>

\* line 53-68
CallGetContextsForKernel(p, Ids, KArgs, Profs) ==
    /\ pc[p] = "idle"
    /\ \E connProviderIds \in Ids, kernelChangedArgs \in KArgs, profile \in Profs :
         /\ op' = [op EXCEPT ![p] = "getContextsForKernel"]
         /\ args' = [args EXCEPT ![p] =
                [NoArgs EXCEPT !.connProviderIds = connProviderIds,
                               !.kernelChangedArgs = kernelChangedArgs,
                               !.profile = profile]]
         /\ LET connections == DefaultContext(<<p, 1>>)
            IN  IF \/ profile = Undefined /\ NothingToDo(kernelChangedArgs)
                   \/ NoProviderForKernel(kernelChangedArgs, connProviderIds)
                THEN /\ result' = [result EXCEPT ![p] = connections]
                     /\ pc' = [pc EXCEPT ![p] = "returned"]
                     /\ heap' = [heap EXCEPT ![p] = 1]
                     /\ UNCHANGED <<locals, fetches, fetched, error>>
                ELSE EnterActiveContexts(p, 1)

\* line 75-77, called directly
CallGetActiveContexts(p, Ids, Profs) ==
    /\ pc[p] = "idle"
    /\ \E connProviderIds \in Ids, profile \in Profs :
         /\ op' = [op EXCEPT ![p] = "getActiveContexts"]
         /\ args' = [args EXCEPT ![p] =
                [NoArgs EXCEPT !.connProviderIds = connProviderIds,
                               !.profile = profile]]
         /\ EnterActiveContexts(p, 0)

\* line 77-126 (and 65-67): the fetch resolves and the invocation runs to its end
FetchResolved(p, Values) ==
    /\ pc[p] = "awaiting"
    /\ \E fetchedValue \in Values :
         LET r == getActiveContextsResume(p, heap[p], locals[p], fetchedValue,
                                          args[p].connProviderIds, args[p].profile)
         IN  /\ fetched' = [fetched EXCEPT ![p] = [t |-> "resolved", v |-> fetchedValue, e |-> ""]]
             /\ IF r.t = "return"
                THEN /\ result' = [result EXCEPT ![p] = r.v]
                     /\ pc' = [pc EXCEPT ![p] = "returned"]
                     /\ error' = error
                ELSE /\ error' = [error EXCEPT ![p] = r.e]
                     /\ pc' = [pc EXCEPT ![p] = "rejected"]
                     /\ result' = result
             /\ UNCHANGED <<op, args, locals, heap, fetches>>

\* line 77 (and 65): the fetch rejects; no handler catches it
FetchRejected_Recover(p) ==
    /\ pc[p] = "awaiting"
    /\ \E e \in FetchErrors :
         /\ fetched' = [fetched EXCEPT ![p] = [t |-> "rejected", v |-> NotFetched.v, e |-> e]]
         /\ result' = [result EXCEPT ![p] = DefaultContext(<<p, heap[p] + 1>>)]
         /\ pc' = [pc EXCEPT ![p] = "returned"]
         /\ UNCHANGED <<op, args, locals, heap, fetches, error>>

FetchRejected(p) ==
    /\ pc[p] = "awaiting"
    /\ \E e \in FetchErrors :
         /\ fetched' = [fetched EXCEPT ![p] = [t |-> "rejected", v |-> NotFetched.v, e |-> e]]
         /\ error' = [error EXCEPT ![p] = e]
         /\ pc' = [pc EXCEPT ![p] = "rejected"]
         /\ UNCHANGED <<op, args, locals, heap, fetches, result>>

\* line 135-158
CallGetDefaultKernel(p) ==
    /\ pc[p] = "idle"
    /\ \E specs \in AllKernels, connectionInfo \in ConnectionInfos,
          savedKernelInfo \in KernelInfos, notificationService \in NotificationServices :
         /\ op' = [op EXCEPT ![p] = "getDefaultKernel"]
         /\ args' = [args EXCEPT ![p] =
                [NoArgs EXCEPT !.specs = specs, !.connectionInfo = connectionInfo,
                               !.savedKernelInfo = savedKernelInfo,
                               !.notificationService = notificationService]]
         /\ result' = [result EXCEPT ![p] =
                getDefaultKernel(specs, connectionInfo, savedKernelInfo, notificationService)]
         /\ pc' = [pc EXCEPT ![p] = "returned"]
         /\ UNCHANGED <<locals, heap, fetches, fetched, error>>

\* one invocation, every input
Next ==
    \/ CallGetContextsForKernel(Main, ProviderIdLists, KernelChangedArgs, Profiles)
    \/ CallGetActiveContexts(Main, ProviderIdLists, Profiles)
    \/ FetchResolved(Main, FetchedValues)
    \/ FetchRejected(Main)
    \/ CallGetDefaultKernel(Main)

Spec == Init /\ [][Next]_vars

\* several invocations in flight at once, over a small set of inputs
ConcProviderIdLists == {<<"MSSQL">>}
ConcKernelChangedArgs ==
    {Undefined, [oldValue |-> Undefined, newValue |-> [id |-> "k1", name |-> "SQL"]]}
ConcProfiles == {Undefined, [serverName |-> "A", options |-> [defined |-> TRUE, keys |-> {"x"}]]}
ConcFetchedValues ==
    {[isNull |-> FALSE, items |-> <<>>],
     [isNull |-> FALSE,
      items |-> SvcList(<<[providerName |-> "MSSQL", id |-> "1", serverName |-> "A"]>>)]}

ConcNext ==
    \E p \in Procs :
        \/ CallGetContextsForKernel(p, ConcProviderIdLists, ConcKernelChangedArgs, ConcProfiles)
        \/ CallGetActiveContexts(p, ConcProviderIdLists, ConcProfiles)
        \/ FetchResolved(p, ConcFetchedValues)
        \/ FetchRejected(p)

ConcSpec == Init /\ [][ConcNext]_vars

\* ------------------------------------------------------------ properties
Strip(c) == [providerName |-> c.providerName, id |-> c.id, serverName |-> c.serverName]

SelectConnectionData ==
    [providerName |-> "MSSQL", id |-> "-1", serverName |-> "Select connection"]
LocalhostData ==
    [providerName |-> "MSSQL", id |-> "-1", serverName |-> "Localhost"]
AddNewConnectionData ==
    [providerName |-> "SQL", id |-> "-2", serverName |-> "Add new connection"]

IsDefaultContext(r) ==
    /\ r.otherConnections = <<r.defaultConnection>>
    /\ Strip(r.defaultConnection) = SelectConnectionData

IsLocalContext(r) ==
    /\ r.otherConnections = <<r.defaultConnection>>
    /\ Strip(r.defaultConnection) = LocalhostData

Member(c, s) == \E k \in 1..Len(s) : s[k] = c

\* invocation p got a list from the fetch and returned a result built from it
Resolved(p) ==
    /\ pc[p] = "returned"
    /\ fetched[p].t = "resolved"
    /\ ~fetched[p].v.isNull

Items(p) == fetched[p].v.items
RealIdx(p) == {i \in 1..Len(Items(p)) : Items(p)[i].id # "-1"}
AllowedIdx(p) ==
    {i \in RealIdx(p) :
        \E j \in 1..Len(args[p].connProviderIds) :
            args[p].connProviderIds[j] = Items(p)[i].providerName}
MatchIdx(p) ==
    {i \in AllowedIdx(p) : Items(p)[i].serverName = args[p].profile.serverName}

MinOf(I) == CHOOSE i \in I : \A j \in I : i <= j
Nth(I, k) == CHOOSE i \in I : Cardinality({j \in I : j < i}) = k - 1
\* the elements of s at the indices I, in the order of s
Pick(s, I) == [k \in 1..Cardinality(I) |-> s[Nth(I, k)]]

SameKernelName(p) ==
    /\ op[p] = "getContextsForKernel"
    /\ args[p].profile = Undefined
    /\ args[p].kernelChangedArgs # Undefined
    /\ args[p].kernelChangedArgs.oldValue # Undefined
    /\ args[p].kernelChangedArgs.newValue # Undefined
    /\ args[p].kernelChangedArgs.oldValue.name = args[p].kernelChangedArgs.newValue.name

SameKernelId(p) ==
    /\ op[p] = "getContextsForKernel"
    /\ args[p].profile = Undefined
    /\ args[p].kernelChangedArgs # Undefined
    /\ args[p].kernelChangedArgs.oldValue # Undefined
    /\ args[p].kernelChangedArgs.newValue # Undefined
    /\ args[p].kernelChangedArgs.oldValue.id = args[p].kernelChangedArgs.newValue.id

PlaceholderWithoutFetch(p) ==
    /\ fetches[p] = 0
    /\ pc[p] = "returned"
    /\ IsDefaultContext(result[p])

\* C1 as stated: with no profile and an old and a new kernel of the same name,
\* getContextsForKernel returns the Select-connection placeholder and never
\* invokes getActiveConnections, whatever the allowed provider ids.
C1_AsStated == \A p \in Procs : SameKernelName(p) => PlaceholderWithoutFetch(p)

\* C1 amended: with no profile and an old and a new kernel of the same id,
\* getContextsForKernel returns the Select-connection placeholder and never
\* invokes getActiveConnections, whatever the allowed provider ids.
C1_SameIdNoFetch == \A p \in Procs : SameKernelId(p) => PlaceholderWithoutFetch(p)

C1_Witness ==
    /\ SameKernelId(Main)
    /\ args[Main].kernelChangedArgs.oldValue.name # args[Main].kernelChangedArgs.newValue.name
    /\ Len(args[Main].connProviderIds) > 0
    /\ PlaceholderWithoutFetch(Main)

\* C2: when the fetched list has a connection with id other than "-1" but none
\* with an allowed provider, the result's defaultConnection is the placeholder
\* (id "-1") and otherConnections contains the "Add new connection" entry
\* (provider "SQL", id "-2").
C2_AddNewConnectionAppended ==
    \A p \in Procs :
        (Resolved(p) /\ RealIdx(p) # {} /\ AllowedIdx(p) = {}) =>
            /\ Strip(result[p].defaultConnection) = SelectConnectionData
            /\ \E k \in 1..Len(result[p].otherConnections) :
                   Strip(result[p].otherConnections[k]) = AddNewConnectionData

ContextResult(p) ==
    /\ op[p] \in {"getContextsForKernel", "getActiveContexts"}
    /\ pc[p] = "returned"

NoneAllowed(p) == Resolved(p) /\ RealIdx(p) # {} /\ AllowedIdx(p) = {}

\* C3 as stated: in every result of getActiveContexts and getContextsForKernel
\* the defaultConnection is an element of otherConnections.
C3_AsStated ==
    \A p \in Procs :
        ContextResult(p) => Member(result[p].defaultConnection, result[p].otherConnections)

\* C3 amended: in every result of getActiveContexts and getContextsForKernel the
\* defaultConnection is an element of otherConnections, except when the fetched
\* list has a connection with id other than "-1" but none with an allowed
\* provider: then the defaultConnection is the placeholder (id "-1") and is not
\* an element of otherConnections.
C3_DefaultAmongOthers ==
    \A p \in Procs :
        ContextResult(p) =>
            IF NoneAllowed(p)
            THEN /\ Strip(result[p].defaultConnection) = SelectConnectionData
                 /\ ~Member(result[p].defaultConnection, result[p].otherConnections)
            ELSE Member(result[p].defaultConnection, result[p].otherConnections)

C3_Witness ==
    /\ Resolved(Main)
    /\ HasProfileOptions(args[Main].profile)
    /\ RealIdx(Main) = {1, 2}
    /\ AllowedIdx(Main) = {2}
    /\ Items(Main)[1].serverName = args[Main].profile.serverName
    /\ Items(Main)[2].serverName # args[Main].profile.serverName
    /\ Member(result[Main].defaultConnection, result[Main].otherConnections)

C5_PlaceholderWhenNoConnections ==
    \A p \in Procs :
        (Resolved(p) /\ RealIdx(p) = {}) =>
            IF Len(args[p].connProviderIds) = 0
            THEN IsLocalContext(result[p])
            ELSE IsDefaultContext(result[p])

C5_Witness ==
    /\ Resolved(Main)
    /\ Len(Items(Main)) > 0
    /\ RealIdx(Main) = {}
    /\ args[Main].profile # Undefined
    /\ Len(args[Main].connProviderIds) > 0
    /\ Items(Main)[1].providerName = args[Main].connProviderIds[1]
    /\ IsDefaultContext(result[Main])

KernelIdx(specs, name) == {i \in 1..Len(specs.kernels) : specs.kernels[i].name = name}
FirstNamed(specs, name) == specs.kernels[MinOf(KernelIdx(specs, name))]

SavedApplies(a) ==
    /\ a.specs # Undefined
    /\ a.connectionInfo # Undefined
    /\ a.savedKernelInfo # Undefined
    /\ KernelIdx(a.specs, a.savedKernelInfo.name) # {}

DefaultApplies(a) ==
    /\ a.specs # Undefined
    /\ KernelIdx(a.specs, a.specs.defaultKernel) # {}

\* C6: getDefaultKernel returns the first kernel named savedKernelInfo.name when
\* specs and connectionInfo are given and such a kernel exists, otherwise the
\* first kernel named specs.defaultKernel when specs is given and such a kernel
\* exists, otherwise {name: "SQL", display_name: "SQL"}; it always returns a
\* kernel, whatever the notificationService.
C6_DefaultKernel ==
    \A p \in Procs :
        (op[p] = "getDefaultKernel") =>
            /\ pc[p] = "returned"
            /\ result[p] # Undefined
            /\ result[p] =
                 IF SavedApplies(args[p])
                 THEN FirstNamed(args[p].specs, args[p].savedKernelInfo.name)
                 ELSE IF DefaultApplies(args[p])
                 THEN FirstNamed(args[p].specs, args[p].specs.defaultKernel)
                 ELSE [name |-> "SQL", display_name |-> "SQL"]

C6_Witness ==
    /\ op[Main] = "getDefaultKernel"
    /\ SavedApplies(args[Main])
    /\ DefaultApplies(args[Main])
    /\ args[Main].specs.defaultKernel # args[Main].savedKernelInfo.name
    /\ Cardinality(KernelIdx(args[Main].specs, args[Main].savedKernelInfo.name)) = 1
    /\ args[Main].notificationService = "n2"
    /\ result[Main].name = args[Main].savedKernelInfo.name

\* C7: with empty allowed provider ids and a new kernel with a non-empty name,
\* getContextsForKernel returns the Select-connection placeholder and never
\* invokes getActiveConnections, with or without a profile, whatever the old
\* kernel.
C7_NoProvidersNoFetch ==
    \A p \in Procs :
        (/\ op[p] = "getContextsForKernel"
         /\ Len(args[p].connProviderIds) = 0
         /\ args[p].kernelChangedArgs # Undefined
         /\ args[p].kernelChangedArgs.newValue # Undefined
         /\ args[p].kernelChangedArgs.newValue.name # "") =>
            PlaceholderWithoutFetch(p)

C7_Witness ==
    /\ op[Main] = "getContextsForKernel"
    /\ Len(args[Main].connProviderIds) = 0
    /\ args[Main].profile # Undefined
    /\ args[Main].kernelChangedArgs # Undefined
    /\ args[Main].kernelChangedArgs.newValue # Undefined
    /\ args[Main].kernelChangedArgs.newValue.name # ""
    /\ args[Main].kernelChangedArgs.oldValue # Undefined
    /\ args[Main].kernelChangedArgs.oldValue.id # args[Main].kernelChangedArgs.newValue.id
    /\ PlaceholderWithoutFetch(Main)

FirstAllowedIsDefault(p) == result[p].defaultConnection = Items(p)[MinOf(AllowedIdx(p))]

\* C8 as stated: with a profile whose options mapping is empty there is no
\* server-name override: defaultConnection is the first allowed connection.
C8_AsStated ==
    \A p \in Procs :
        (/\ Resolved(p) /\ AllowedIdx(p) # {}
         /\ args[p].profile # Undefined
         /\ args[p].profile.options.defined
         /\ args[p].profile.options.keys = {}) =>
            FirstAllowedIsDefault(p)

\* C8 amended: with a profile that has no options mapping (options absent)
\* there is no server-name override: defaultConnection is the first allowed
\* connection, even if a later allowed connection has the profile's serverName.
C8_NoOptionsNoOverride ==
    \A p \in Procs :
        (/\ Resolved(p) /\ AllowedIdx(p) # {}
         /\ args[p].profile # Undefined
         /\ ~args[p].profile.options.defined) =>
            FirstAllowedIsDefault(p)

C8_Witness ==
    /\ Resolved(Main)
    /\ args[Main].profile # Undefined
    /\ ~args[Main].profile.options.defined
    /\ AllowedIdx(Main) = {1, 2}
    /\ MatchIdx(Main) = {2}
    /\ result[Main].defaultConnection = Items(Main)[1]

\* C9: with a profile with non-empty options and an allowed connection (id
\* other than "-1") whose serverName is the profile's, defaultConnection is the
\* first such connection in fetched order; a connection with that serverName
\* and a provider that is not allowed is never the defaultConnection.
C9_ServerNameOverride ==
    \A p \in Procs :
        (/\ Resolved(p)
         /\ args[p].profile # Undefined
         /\ args[p].profile.options.defined
         /\ args[p].profile.options.keys # {}
         /\ MatchIdx(p) # {}) =>
            /\ result[p].defaultConnection = Items(p)[MinOf(MatchIdx(p))]
            /\ \E j \in 1..Len(args[p].connProviderIds) :
                   args[p].connProviderIds[j] = result[p].defaultConnection.providerName

C9_Witness ==
    /\ Resolved(Main)
    /\ args[Main].profile # Undefined
    /\ args[Main].profile.options.keys # {}
    /\ Len(Items(Main)) = 2
    /\ Items(Main)[1].serverName = args[Main].profile.serverName
    /\ 1 \in RealIdx(Main)
    /\ MatchIdx(Main) = {2}
    /\ result[Main].defaultConnection = Items(Main)[2]

RejectionPropagates(p) ==
    /\ pc[p] = "rejected"
    /\ error[p] = fetched[p].e
    /\ result[p] = Undefined
    /\ fetches[p] = 1

OthersUntouched(p) ==
    \A q \in Procs \ {p} :
        /\ pc'[q] = pc[q]
        /\ result'[q] = result[q]
        /\ error'[q] = error[q]
        /\ fetches'[q] = fetches[q]

\* C10: when getActiveConnections rejects, the invocation rejects with that
\* same failure, returns no result, has fetched exactly once, and the
\* rejection changes no other invocation's state or result.
C10_RejectionPropagates ==
    /\ [](\A p \in Procs : fetched[p].t = "rejected" => RejectionPropagates(p))
    /\ [][\A p \in Procs :
            (fetched[p].t # "rejected" /\ fetched'[p].t = "rejected") => OthersUntouched(p)]_vars

C10_Witness ==
    /\ fetched[1].t = "rejected"
    /\ op[1] = "getContextsForKernel"
    /\ error[1] = "E2"
    /\ Resolved(2)
    /\ Len(result[2].otherConnections) = 1
    /\ result[2].defaultConnection.id = "1"
====
